---- MODULE Spec2Model ----
(***************************************************************************)
(* Fixed-rate mortgage calculator (mortgage.py).                           *)
(*                                                                         *)
(* The program computes with Python floats, i.e. IEEE-754 binary64.        *)
(* Floats are modelled bit-exactly: a float is sign * man * 2^exp with an  *)
(* odd (or zero) mantissa of at most MantBits bits, and every arithmetic   *)
(* operation computes the exact result and rounds it to nearest, ties to   *)
(* even.  Mantissas are arbitrary-precision naturals held as little-endian *)
(* sequences of limbs in base 2^15.  The exponent range of binary64 is     *)
(* never approached by the inputs considered, so it is left unbounded.     *)
(***************************************************************************)
EXTENDS Integers, Sequences, FiniteSets, TLC

(***************************************************************************)
(* Arbitrary-precision naturals                                            *)
(***************************************************************************)
\* limbs hold 15 bits, so that a product of two limbs stays a small integer
Base == 2^15

RECURSIVE BigTrim(_)
BigTrim(a) ==
    IF a = <<>> THEN a
    ELSE IF a[Len(a)] = 0 THEN BigTrim(SubSeq(a, 1, Len(a) - 1)) ELSE a

RECURSIVE BigOfInt(_)
BigOfInt(n) == IF n = 0 THEN <<>> ELSE <<n % Base>> \o BigOfInt(n \div Base)

RECURSIVE BigToInt(_)
BigToInt(a) == IF a = <<>> THEN 0 ELSE a[1] + Base * BigToInt(Tail(a))

BigDigit(a, i) == IF i <= Len(a) THEN a[i] ELSE 0

RECURSIVE BigAddC(_, _, _, _)
BigAddC(a, b, i, c) ==
    IF i > Len(a) /\ i > Len(b)
    THEN (IF c = 0 THEN <<>> ELSE <<c>>)
    ELSE LET s == BigDigit(a, i) + BigDigit(b, i) + c
         IN  <<s % Base>> \o BigAddC(a, b, i + 1, s \div Base)

BigAdd(a, b) == BigAddC(a, b, 1, 0)

RECURSIVE BigSubC(_, _, _, _)
BigSubC(a, b, i, br) ==
    IF i > Len(a) THEN <<>>
    ELSE LET d == a[i] - BigDigit(b, i) - br
         IN  IF d < 0 THEN <<d + Base>> \o BigSubC(a, b, i + 1, 1)
                      ELSE <<d>> \o BigSubC(a, b, i + 1, 0)

\* a - b for a >= b
BigSub(a, b) == BigTrim(BigSubC(a, b, 1, 0))

RECURSIVE BigCmpAt(_, _, _)
BigCmpAt(a, b, i) ==
    IF i = 0 THEN 0
    ELSE IF a[i] < b[i] THEN -1
    ELSE IF a[i] > b[i] THEN 1
    ELSE BigCmpAt(a, b, i - 1)

\* -1, 0 or 1 as a < b, a = b, a > b
BigCmp(a, b) ==
    IF Len(a) < Len(b) THEN -1
    ELSE IF Len(a) > Len(b) THEN 1
    ELSE BigCmpAt(a, b, Len(a))

RECURSIVE BigMulSmallC(_, _, _, _)
BigMulSmallC(a, d, i, c) ==
    IF i > Len(a) THEN (IF c = 0 THEN <<>> ELSE <<c>>)
    ELSE LET s == a[i] * d + c
         IN  <<s % Base>> \o BigMulSmallC(a, d, i + 1, s \div Base)

\* a * d for a limb d < Base
BigMulSmall(a, d) == IF d = 0 THEN <<>> ELSE BigMulSmallC(a, d, 1, 0)

RECURSIVE BigMulAt(_, _, _)
BigMulAt(a, b, j) ==
    IF j > Len(b) THEN <<>>
    ELSE BigAdd(BigMulSmall(a, b[j]), <<0>> \o BigMulAt(a, b, j + 1))

BigMul(a, b) == IF a = <<>> \/ b = <<>> THEN <<>> ELSE BigTrim(BigMulAt(a, b, 1))

\* a^n by repeated squaring
RECURSIVE BigPow(_, _)
BigPow(a, n) ==
    IF n = 0 THEN <<1>>
    ELSE LET h == BigPow(a, n \div 2)
         IN  IF n % 2 = 0 THEN BigMul(h, h) ELSE BigMul(a, BigMul(h, h))

RECURSIVE BigDivSmallAt(_, _, _, _)
BigDivSmallAt(a, d, i, rem) ==
    IF i = 0 THEN <<>>
    ELSE LET cur == rem * Base + a[i]
         IN  BigDivSmallAt(a, d, i - 1, cur % d) \o <<cur \div d>>

\* floor(a / d) for 0 < d < Base
BigDivSmall(a, d) == BigTrim(BigDivSmallAt(a, d, Len(a), 0))

Zeros(k) == IF k = 0 THEN <<>> ELSE [i \in 1..k |-> 0]

\* a * 2^k
BigShl(a, k) ==
    IF a = <<>> THEN <<>>
    ELSE Zeros(k \div 15) \o BigMulSmall(a, 2^(k % 15))

\* floor(a / 2^k)
BigShr(a, k) ==
    IF k \div 15 >= Len(a) THEN <<>>
    ELSE BigDivSmall(SubSeq(a, (k \div 15) + 1, Len(a)), 2^(k % 15))

RECURSIVE IntBitLen(_)
IntBitLen(n) == IF n = 0 THEN 0 ELSE 1 + IntBitLen(n \div 2)

BigBitLen(a) ==
    IF a = <<>> THEN 0 ELSE 15 * (Len(a) - 1) + IntBitLen(a[Len(a)])

RECURSIVE IntTz(_)
IntTz(n) == IF n % 2 = 1 THEN 0 ELSE 1 + IntTz(n \div 2)

RECURSIVE BigTzAt(_, _)
BigTzAt(a, i) ==
    IF a[i] = 0 THEN 15 + BigTzAt(a, i + 1) ELSE IntTz(a[i])

\* number of trailing zero bits of a > 0
BigTz(a) == BigTzAt(a, 1)

\* bit i (1 = least significant) of a
BigBit(a, i) ==
    (BigDigit(a, ((i - 1) \div 15) + 1) \div 2^((i - 1) % 15)) % 2

\* one step of binary long division: bring down bit i of n
BigDivStep(n, d, i, qr) ==
    LET r2 == BigAdd(BigAdd(qr[2], qr[2]), BigOfInt(BigBit(n, i)))
    IN  IF BigCmp(r2, d) >= 0
        THEN <<BigAdd(BigAdd(qr[1], qr[1]), <<1>>), BigSub(r2, d)>>
        ELSE <<BigAdd(qr[1], qr[1]), r2>>

\* the steps for bits hi down to lo of n, from quotient and remainder qr;
\* the range is halved so that the evaluation stays shallow
RECURSIVE BigDivRange(_, _, _, _, _)
BigDivRange(n, d, hi, lo, qr) ==
    IF hi < lo THEN qr
    ELSE IF hi = lo THEN BigDivStep(n, d, hi, qr)
    ELSE LET mid   == (hi + lo) \div 2
             upper == BigDivRange(n, d, hi, mid + 1, qr)
         IN  IF Len(upper) = 2 THEN BigDivRange(n, d, mid, lo, upper) ELSE upper

\* <<floor(n / d), n mod d>> for d > 0
BigDivMod(n, d) == BigDivRange(n, d, BigBitLen(n), 1, <<<<>>, <<>>>>)

(***************************************************************************)
(* Python float (IEEE-754 binary64) arithmetic                             *)
(***************************************************************************)
\* significand width of a Python float
MantBits == 53

FZero == [sign |-> 1, man |-> <<>>, exp |-> 0]

\* canonical form: odd mantissa, or FZero
FNormalize(s, m, e) ==
    IF m = <<>> THEN FZero
    ELSE LET z == BigTz(m)
         IN  [sign |-> s, man |-> BigShr(m, z), exp |-> e + z]

\* s * m * 2^e rounded to MantBits significant bits; mode is "nearest"
\* (ties to even), "down" (towards zero) or "up" (away from zero)
FRound(s, m, e, mode) ==
    LET len == BigBitLen(m)
    IN  IF len <= MantBits THEN FNormalize(s, m, e)
        ELSE LET k    == len - MantBits
                 q    == BigShr(m, k)
                 rem  == BigSub(m, BigShl(q, k))
                 c    == BigCmp(rem, BigShl(<<1>>, k - 1))
                 up   == CASE mode = "nearest" -> c = 1 \/ (c = 0 /\ q[1] % 2 = 1)
                           [] mode = "down"    -> FALSE
                           [] mode = "up"      -> rem # <<>>
             IN  FNormalize(s, IF up THEN BigAdd(q, <<1>>) ELSE q, e + k)

FIsExact(m) == BigBitLen(m) <= MantBits

\* int -> float conversion
FromInt(n) ==
    IF n >= 0 THEN FRound(1, BigOfInt(n), 0, "nearest")
              ELSE FRound(-1, BigOfInt(-n), 0, "nearest")

FNeg(a) == IF a.man = <<>> THEN a ELSE [a EXCEPT !.sign = -a.sign]

FMul(a, b) ==
    FRound(a.sign * b.sign, BigMul(a.man, b.man), a.exp + b.exp, "nearest")

FAdd(a, b) ==
    IF a.man = <<>> THEN b
    ELSE IF b.man = <<>> THEN a
    ELSE LET e  == IF a.exp < b.exp THEN a.exp ELSE b.exp
             am == BigShl(a.man, a.exp - e)
             bm == BigShl(b.man, b.exp - e)
             c  == BigCmp(am, bm)
         IN  IF a.sign = b.sign THEN FRound(a.sign, BigAdd(am, bm), e, "nearest")
             ELSE IF c = 0 THEN FZero
             ELSE IF c = 1 THEN FRound(a.sign, BigSub(am, bm), e, "nearest")
             ELSE FRound(b.sign, BigSub(bm, am), e, "nearest")

FSub(a, b) == FAdd(a, FNeg(b))

\* a / b for b # 0: the quotient is computed to MantBits + 2 bits and a
\* sticky bit, then rounded
FDiv(a, b) ==
    IF a.man = <<>> THEN FZero
    ELSE LET need == MantBits + 3 + BigBitLen(b.man) - BigBitLen(a.man)
             k    == IF need > 0 THEN need ELSE 0
             qr   == BigDivMod(BigShl(a.man, k), b.man)
             m    == BigAdd(BigAdd(qr[1], qr[1]),
                            IF qr[2] = <<>> THEN <<>> ELSE <<1>>)
         IN  FRound(a.sign * b.sign, m, a.exp - b.exp - k - 1, "nearest")

\* -1, 0 or 1 as a < b, a = b, a > b
FCmp(a, b) ==
    LET d == FSub(a, b)
    IN  IF d.man = <<>> THEN 0 ELSE d.sign

FLt(a, b) == FCmp(a, b) = -1
FLe(a, b) == FCmp(a, b) <= 0
FGt(a, b) == FCmp(a, b) = 1

\* math.ceil: float -> int
FCeil(a) ==
    IF a.exp >= 0 THEN a.sign * BigToInt(BigShl(a.man, a.exp))
    ELSE LET q == BigToInt(BigShr(a.man, -a.exp))
         IN  IF a.sign = 1 THEN q + 1 ELSE -q

\* The values libm's pow(x, n) can return for x > 0 and an integer n >= 0:
\* the exact power when it is a float, else either neighbouring float (pow
\* is accurate to under one unit in the last place, not correctly rounded)
FPow(x, n) ==
    LET m == BigPow(x.man, n)
    IN  IF FIsExact(m) THEN {FNormalize(1, m, x.exp * n)}
        ELSE {FRound(1, m, x.exp * n, "down"), FRound(1, m, x.exp * n, "up")}

(***************************************************************************)
(* Command lines considered                                                *)
(***************************************************************************)
MaxPrincipal == 4
MaxYears     == 3
MaxTarget    == 6
\* the payment counter is a Python int and unbounded; iterations are cut
\* off here, beyond the longest schedule among the inputs
MaxPayments  == 60

\* argparse's type=float applied to the decimal string num/den
ParseFloat(num, den) == FDiv(FromInt(num), FromInt(den))

\* the optional -p argument: <<>> is None, <<t>> is the float t
NoTarget == <<>>

GridArgs ==
    [ mortgage_amount      : {ParseFloat(p, 1) : p \in -1..MaxPrincipal},
      annual_interest_rate : {ParseFloat(k, 100) : k \in {-50, 0, 50, 100, 150}},
      years                : 0..MaxYears,
      num_annual_payments  : {-1, 0, 1, 2},
      target_payment       : {NoTarget} \cup {<<ParseFloat(t, 1)>> : t \in -1..MaxTarget} ]

\* two further command lines: a long term at 100% interest, and a two-year
\* loan at 56% whose amortizing payment is the whole number 1521
LongTermArgs ==
    [ mortgage_amount |-> ParseFloat(100, 1), annual_interest_rate |-> ParseFloat(1, 1),
      years |-> 54, num_annual_payments |-> 1, target_payment |-> NoTarget ]

WholePaymentArgs ==
    [ mortgage_amount |-> ParseFloat(1600, 1), annual_interest_rate |-> ParseFloat(56, 100),
      years |-> 2, num_annual_payments |-> 1, target_payment |-> NoTarget ]

CommandLines == GridArgs \cup {LongTermArgs, WholePaymentArgs}

(***************************************************************************)
(* The functions of mortgage.py                                            *)
(***************************************************************************)
FOne == FromInt(1)

\* get_min_payment: the set of outcomes, one per value pow can return.
\* raised is TRUE when a float division by zero raises ZeroDivisionError.
get_min_payment(principal, annual_interest_rate, term, num_of_payments) ==
    IF num_of_payments = 0
    THEN {[raised |-> TRUE, value |-> 0]}
    ELSE LET r == FDiv(annual_interest_rate, FromInt(num_of_payments))
             n == term * num_of_payments
         IN  { LET den == FSub(X, FOne)
               IN  IF den = FZero
                   THEN [raised |-> TRUE, value |-> 0]
                   ELSE [raised |-> FALSE,
                         value  |-> FCeil(FDiv(FMul(principal, FMul(r, X)), den))]
               : X \in FPow(FAdd(FOne, r), n) }

\* interest_due, for num_of_payments # 0
interest_due(balance_of_mortgage, annual_interest_rate, num_of_payments) ==
    FMul(balance_of_mortgage, FDiv(annual_interest_rate, FromInt(num_of_payments)))

\* the ValueError message parse_args raises, "" when the arguments pass
ValidationError_YearsNonNegative(a) ==
    IF FLt(a.mortgage_amount, FZero) THEN "mortgage amount must be positive"
    ELSE IF ~(FLe(FZero, a.annual_interest_rate) /\ FLe(a.annual_interest_rate, FOne))
         THEN "annual interest rate must be between 0 and 1"
    ELSE IF a.years < 0 THEN "years must be positive"
    ELSE IF a.num_annual_payments < 0 THEN "number of payments per year must be positive"
    ELSE IF a.target_payment # NoTarget /\ a.target_payment[1] # FZero
            /\ FLt(a.target_payment[1], FZero)
         THEN "target payment must be positive"
    ELSE ""

ValidationError(a) ==
    IF FLt(a.mortgage_amount, FZero) THEN "mortgage amount must be positive"
    ELSE IF ~(FLe(FZero, a.annual_interest_rate) /\ FLe(a.annual_interest_rate, FOne))
         THEN "annual interest rate must be between 0 and 1"
    ELSE IF a.years < 1 THEN "years must be positive"
    ELSE IF a.num_annual_payments < 0 THEN "number of payments per year must be positive"
    ELSE IF a.target_payment # NoTarget /\ a.target_payment[1] # FZero
            /\ FLt(a.target_payment[1], FZero)
         THEN "target payment must be positive"
    ELSE ""

\* main, lines 111-112: a missing target payment becomes the minimum payment
DefaultTarget_Zero(target, min) ==
    IF target = NoTarget THEN FZero ELSE target[1]

DefaultTarget(target, min) ==
    IF target = NoTarget THEN FromInt(min) ELSE target[1]

\* main, line 114
BelowMinimum_Reversed(target, min) == FGt(target, FromInt(min))

BelowMinimum(target, min) == FLt(target, FromInt(min))

(***************************************************************************)
(* One run of the program                                                  *)
(***************************************************************************)
VARIABLES
    pc,                  \* "parse_args", "main", "remaining_payments", "exit"
    args,                \* the parsed command line
    min_payment,         \* main's min_payment
    target_payment,      \* main's target_payment once resolved
    balance_of_mortgage, \* remaining_payments' balance
    payments,            \* remaining_payments' counter
    stdout,              \* the lines printed
    stderr,              \* "" or the error the process died of
    exit_status,         \* -1 while running, then the exit status
    called               \* the functions entered so far

vars == <<pc, args, min_payment, target_payment, balance_of_mortgage,
          payments, stdout, stderr, exit_status, called>>

Line(kind, n) == [kind |-> kind, n |-> n]

\* the namespace before parser.parse_args() has run: the declared defaults
Unparsed ==
    [ mortgage_amount |-> FZero, annual_interest_rate |-> FZero,
      years |-> 30, num_annual_payments |-> 12, target_payment |-> NoTarget ]

Init ==
    /\ pc = "parse_args"
    /\ args = Unparsed
    /\ min_payment = 0
    /\ target_payment = FZero
    /\ balance_of_mortgage = FZero
    /\ payments = 0
    /\ stdout = <<>>
    /\ stderr = ""
    /\ exit_status = -1
    /\ called = {"parse_args"}

\* parse_args reads a command line and raises; the __main__ block turns the
\* ValueError into sys.exit(message)
ParseArgsError ==
    /\ pc = "parse_args"
    /\ \E a \in CommandLines :
          /\ ValidationError(a) # ""
          /\ args' = a
          /\ stderr' = ValidationError(a)
    /\ pc' = "exit"
    /\ exit_status' = 1
    /\ UNCHANGED <<min_payment, target_payment, balance_of_mortgage,
                   payments, stdout, called>>

\* parse_args reads a command line and returns; the __main__ block calls main
ParseArgsOk ==
    /\ pc = "parse_args"
    /\ \E a \in CommandLines :
          /\ ValidationError(a) = ""
          /\ args' = a
    /\ pc' = "main"
    /\ called' = called \cup {"main"}
    /\ UNCHANGED <<min_payment, target_payment, balance_of_mortgage,
                   payments, stdout, stderr, exit_status>>

\* main, line 107: get_min_payment raises and the process dies of it
MainRaise ==
    /\ pc = "main"
    /\ \E res \in get_min_payment(args.mortgage_amount, args.annual_interest_rate,
                                  args.years, args.num_annual_payments) :
          res.raised
    /\ pc' = "exit"
    /\ stderr' = "ZeroDivisionError"
    /\ exit_status' = 1
    /\ called' = called \cup {"get_min_payment"}
    /\ UNCHANGED <<args, min_payment, target_payment, balance_of_mortgage,
                   payments, stdout>>

\* main, lines 107-115: the target is below the minimum
MainTooLow ==
    /\ pc = "main"
    /\ \E res \in get_min_payment(args.mortgage_amount, args.annual_interest_rate,
                                  args.years, args.num_annual_payments) :
          /\ ~res.raised
          /\ BelowMinimum(DefaultTarget(args.target_payment, res.value), res.value)
          /\ min_payment' = res.value
          /\ target_payment' = DefaultTarget(args.target_payment, res.value)
          /\ stdout' = <<Line("Minimum Payment", res.value), Line("less than the minimum", 0)>>
    /\ pc' = "exit"
    /\ exit_status' = 0
    /\ called' = called \cup {"get_min_payment"}
    /\ UNCHANGED <<args, balance_of_mortgage, payments, stderr>>

\* main, lines 107-117: remaining_payments is entered (line 73)
MainPayoff ==
    /\ pc = "main"
    /\ \E res \in get_min_payment(args.mortgage_amount, args.annual_interest_rate,
                                  args.years, args.num_annual_payments) :
          /\ ~res.raised
          /\ ~BelowMinimum(DefaultTarget(args.target_payment, res.value), res.value)
          /\ min_payment' = res.value
          /\ target_payment' = DefaultTarget(args.target_payment, res.value)
          /\ stdout' = <<Line("Minimum Payment", res.value)>>
    /\ pc' = "remaining_payments"
    /\ balance_of_mortgage' = args.mortgage_amount
    /\ payments' = 0
    /\ called' = called \cup {"get_min_payment", "remaining_payments"}
    /\ UNCHANGED <<args, stderr, exit_status>>

\* remaining_payments, lines 74-79: one iteration of the loop
LoopStep ==
    /\ pc = "remaining_payments"
    /\ FGt(balance_of_mortgage, FZero)
    /\ payments < MaxPayments
    /\ LET interest == interest_due(balance_of_mortgage, args.annual_interest_rate,
                                    args.num_annual_payments)
           principal_payment == FSub(target_payment, interest)
       IN  balance_of_mortgage' = FSub(balance_of_mortgage, principal_payment)
    /\ payments' = payments + 1
    /\ called' = called \cup {"interest_due"}
    /\ UNCHANGED <<pc, args, min_payment, target_payment, stdout, stderr, exit_status>>

\* remaining_payments, line 80, and main, line 119
LoopReturn ==
    /\ pc = "remaining_payments"
    /\ ~FGt(balance_of_mortgage, FZero)
    /\ stdout' = Append(stdout, Line("you will pay off the mortgage", payments))
    /\ pc' = "exit"
    /\ exit_status' = 0
    /\ UNCHANGED <<args, min_payment, target_payment, balance_of_mortgage,
                   payments, stderr, called>>

Next ==
    \/ ParseArgsError
    \/ ParseArgsOk
    \/ MainRaise
    \/ MainTooLow
    \/ MainPayoff
    \/ LoopStep
    \/ LoopReturn

Spec == Init /\ [][Next]_vars

(***************************************************************************)
(* Properties                                                              *)
(***************************************************************************)
Amount == args.mortgage_amount
Rate   == args.annual_interest_rate
Years  == args.years
Freq   == args.num_annual_payments

TargetGiven == args.target_payment # NoTarget

\* get_min_payment has returned a value (main printed it)
MinComputed == stdout # <<>>

LastLine == stdout[Len(stdout)]

TooLowLine == Line("less than the minimum", 0)

\* remaining_payments has returned to main
PayoffReturned == pc = "exit" /\ "remaining_payments" \in called

\* C1: when a target payment is supplied and is strictly below the computed
\* minimum payment, the run ends with the "less than the minimum payment"
\* line and remaining_payments is never invoked.
C1_BelowMinimumNeverProjects ==
    (TargetGiven /\ MinComputed /\ FLt(args.target_payment[1], FromInt(min_payment)))
        => /\ pc = "exit"
           /\ exit_status = 0
           /\ stdout = <<Line("Minimum Payment", min_payment), TooLowLine>>
           /\ "remaining_payments" \notin called

C1_Witness ==
    /\ TargetGiven
    /\ pc = "exit"
    /\ MinComputed
    /\ FLt(args.target_payment[1], FromInt(min_payment))
    /\ FGt(args.target_payment[1], FZero)
    /\ LastLine = TooLowLine

\* C2: every run of the remaining_payments loop that main starts (positive
\* rate, at least one payment a year) terminates: the balance eventually
\* becomes <= 0 and the count is returned.  An iteration is a function of
\* the balance alone (rate, target and frequency are fixed), so a loop that
\* terminates never ends an iteration on the balance it began it with.
C2_LoopTerminates ==
    [][ (pc = "remaining_payments" /\ pc' = "remaining_payments"
            /\ FGt(Rate, FZero) /\ Freq >= 1)
          => balance_of_mortgage' # balance_of_mortgage ]_vars

C4_CountAtMostTheTerm ==
    (PayoffReturned /\ FGt(Rate, FZero) /\ FLe(FromInt(min_payment), target_payment))
        => payments <= Years * Freq

\* C5: at a zero annual rate get_min_payment returns ceil(P / (T * F)) as a
\* value instead of raising a division-by-zero error.
C5_ZeroRateMinPayment ==
    (Rate = FZero /\ Freq >= 1 /\ "get_min_payment" \in called)
        => /\ stderr = ""
           /\ min_payment = FCeil(FDiv(Amount, FromInt(Years * Freq)))

\* C6: a payments-per-year value of 0 is rejected by argument validation,
\* so get_min_payment is never reached with num_of_payments = 0.
C6_ZeroFrequencyRejected ==
    (Freq = 0)
        => /\ pc \in {"parse_args", "exit"}
           /\ called = {"parse_args"}
           /\ pc = "exit" => (exit_status = 1 /\ stderr # "ZeroDivisionError")

\* C7: for P >= 0, a rate in [0,1], T >= 1 and F >= 1 get_min_payment
\* returns a payment that, paid T * F times, at least repays the principal.
C7_MinPaymentRepaysPrincipal ==
    (Freq >= 1 /\ "get_min_payment" \in called)
        => /\ stderr = ""
           /\ FLe(Amount, FromInt(min_payment * Years * Freq))

\* the command line passes the documented range checks
ValidatedInputs ==
    /\ FLe(FZero, Amount)
    /\ FLe(FZero, Rate) /\ FLe(Rate, FOne)
    /\ Years >= 1
    /\ Freq >= 0
    /\ TargetGiven => FLe(FZero, args.target_payment[1])

\* C8: every run of main on validated inputs first prints the minimum
\* payment and then ends in exactly one of the two outcomes, the
\* below-minimum warning or the payoff report.
C8_MinimumThenOneOutcome ==
    (ValidatedInputs /\ pc = "exit")
        => /\ Len(stdout) = 2
           /\ stdout[1] = Line("Minimum Payment", min_payment)
           /\ stdout[2] \in {TooLowLine, Line("you will pay off the mortgage", payments)}

InvalidCommandLine ==
    \/ FLt(Amount, FZero)
    \/ FLt(Rate, FZero)
    \/ FGt(Rate, FOne)
    \/ Years < 1
    \/ Freq < 0
    \/ TargetGiven /\ FLt(args.target_payment[1], FZero)

\* C9: on a negative mortgage amount, a rate outside [0,1], years < 1, a
\* negative payments-per-year or a negative target payment, parse_args
\* raises, the process exits with a non-zero status and the validation
\* message, and main is never called: nothing is computed or printed.
C9_InvalidInputExitsBeforeMain ==
    InvalidCommandLine
        => /\ pc \in {"parse_args", "exit"}
           /\ called = {"parse_args"}
           /\ stdout = <<>>
           /\ min_payment = 0
           /\ pc = "exit" => (exit_status = 1 /\ stderr \notin {"", "ZeroDivisionError"})

C9_Witness ==
    /\ InvalidCommandLine
    /\ pc = "exit"
    /\ exit_status = 1
    /\ stderr = "years must be positive"

\* C10: in the loop main starts (positive rate, at least one payment a
\* year) the interest due on the current balance is strictly below the
\* target payment, the balance never exceeds the principal and strictly
\* decreases with each iteration, and the counter starts at 0 and grows by
\* one per iteration.
C10_LoopInvariant ==
    [][ (FGt(Rate, FZero) /\ Freq >= 1) =>
          /\ (pc = "remaining_payments" /\ FGt(balance_of_mortgage, FZero))
                => FLt(interest_due(balance_of_mortgage, Rate, Freq), target_payment)
          /\ pc = "remaining_payments" => FLe(balance_of_mortgage, Amount)
          /\ (pc = "main" /\ pc' = "remaining_payments") => payments' = 0
          /\ (pc = "remaining_payments" /\ pc' = "remaining_payments")
                => /\ FLt(balance_of_mortgage', balance_of_mortgage)
                   /\ payments' = payments + 1 ]_vars

====
